---- MODULE Spec2Model ----
(***************************************************************************)
(* Model of the P-256 precompile codec and verification orchestrator of    *)
(* frontend/src/p256.ts.                                                   *)
(*                                                                         *)
(* Byte arrays (Uint8Array) are sequences of 0..255, hex strings are       *)
(* sequences of one-character strings.  The pure functions are operators   *)
(* computed as the code computes them; verifyOnChain is a state machine    *)
(* with one action per await point.                                        *)
(***************************************************************************)
EXTENDS Integers, Sequences, FiniteSets, TLC

VARIABLES
    input,        \* the arguments of the pure function applied
    output,       \* what that function returned or threw; NotCalled before
    pc,           \* verifyOnChain: "idle", "block", "gas", "call", "settled"
    now,          \* performance.now(), in half milliseconds
    start,        \* verifyOnChain: const start
    params,       \* verifyOnChain: the VerifyParams it was given
    calldata,     \* verifyOnChain: const calldata
    blockNumber,  \* verifyOnChain: const blockNumber
    fullGas,      \* verifyOnChain: const fullGas
    response,     \* verifyOnChain: const response
    result,       \* verifyOnChain: the VerifyResult the promise resolved with
    requests,     \* the requests issued to the client, in order
    failure,      \* the value thrown inside the try block, if any
    failTime,     \* performance.now() when the catch block ran
    status,       \* usePasskey: const [status, setStatus]
    payload,      \* usePasskey: const [payload, setPayload]
    hookError,    \* usePasskey: const [error, setError]
    calls,        \* usePasskey: the signMessage calls made so far
    appMessage,   \* App: const [message, setMessage]
    appSignature, \* App: const [signature, setSignature]
    verifyResult, \* App: const [verifyResult, setVerifyResult]
    loading,      \* App: const [loading, setLoading]
    latestBlock,  \* App: const [latestBlock, setLatestBlock]
    handlers,     \* App: the handleSign and handleVerify runs in flight
    verified      \* App: the signature whose verification gave verifyResult

vars == <<input, output, pc, now, start, params, calldata, blockNumber,
          fullGas, response, result, requests, failure, failTime,
          status, payload, hookError, calls,
          appMessage, appSignature, verifyResult, loading, latestBlock,
          handlers, verified>>

hookVars == <<status, payload, hookError, calls>>

appVars == <<appMessage, appSignature, verifyResult, loading, latestBlock,
             handlers, verified>>

verifyVars == <<pc, now, start, params, calldata, blockNumber, fullGas,
                response, result, requests, failure, failTime>>

(***************************************************************************)
(* JavaScript values that are not numbers or strings.                      *)
(***************************************************************************)
\* the value of an out-of-range typed-array read, and of an absent property
Undefined == -1
\* what arithmetic on undefined yields; never a valid index
NaN == -2
\* the pure function has not been applied yet
NotCalled == [kind |-> "notCalled"]
\* a record-valued variable that was not assigned yet
Unset == [kind |-> "unset"]

(***************************************************************************)
(* Bounds of the checked inputs.                                           *)
(***************************************************************************)
\* every byte sequence over SmallBytes up to this length is a decoder input
MaxSigLen == 5
\* the number of hex digits after the prefix of an enumerated short response
MaxDigits == 2
\* the number of signMessage calls made on one hook
MaxCalls == 2
\* the last instant of the clock, in half milliseconds
MaxTime == 3

(***************************************************************************)
(* Byte-array primitives.                                                  *)
(***************************************************************************)
Byte == 0..255

\* n bytes of value b
Fill(n, b) == [i \in 1..n |-> b]
\* n bytes counting up from b
Ramp(n, b) == [i \in 1..n |-> (b + i) % 256]

\* bytes[i] with a 0-based index: undefined outside the array
At(bytes, i) ==
    IF i >= 0 /\ i < Len(bytes) THEN bytes[i + 1] ELSE Undefined

\* Uint8Array.prototype.slice(start, end): NaN is 0, both ends are clamped
ClampIndex(bytes, i) ==
    IF i = NaN \/ i = Undefined THEN 0
    ELSE IF i > Len(bytes) THEN Len(bytes)
    ELSE i

Slice(bytes, first, last) ==
    LET from == ClampIndex(bytes, first)
        to   == ClampIndex(bytes, last)
    IN  IF to <= from THEN <<>> ELSE SubSeq(bytes, from + 1, to)

RECURSIVE TrimStart(_, _)
\* the while loop of trimLeadingZeros, from its current start
TrimStart(bytes, from) ==
    IF from < Len(bytes) /\ bytes[from + 1] = 0
        THEN TrimStart(bytes, from + 1)
    ELSE from

\* a plausible slip: the slice starts one byte after the zeros
TrimLeadingZerosDropsOneMore(bytes) ==
    Slice(bytes, TrimStart(bytes, 0) + 1, Len(bytes))

\* trimLeadingZeros: bytes.slice(start)
TrimLeadingZeros(bytes) == Slice(bytes, TrimStart(bytes, 0), Len(bytes))

TARGET_LENGTH == 32

\* a plausible slip: the short input is padded on the right
LeftPadOnTheRight(bytes) ==
    IF Len(bytes) > TARGET_LENGTH
        THEN Slice(bytes, Len(bytes) - TARGET_LENGTH, Len(bytes))
    ELSE IF Len(bytes) = TARGET_LENGTH THEN bytes
    ELSE bytes \o Fill(TARGET_LENGTH - Len(bytes), 0)

\* a plausible slip: the over-long input is returned as it is
LeftPadNoTruncation(bytes) ==
    IF Len(bytes) >= TARGET_LENGTH THEN bytes
    ELSE Fill(TARGET_LENGTH - Len(bytes), 0) \o bytes

\* leftPad(bytes, targetLength = 32)
LeftPad(bytes) ==
    IF Len(bytes) > TARGET_LENGTH
        THEN Slice(bytes, Len(bytes) - TARGET_LENGTH, Len(bytes))
    ELSE IF Len(bytes) = TARGET_LENGTH THEN bytes
    ELSE Fill(TARGET_LENGTH - Len(bytes), 0) \o bytes

RECURSIVE ConcatBytes(_)
\* concatBytes(parts): each part copied at the running offset
ConcatBytes(parts) ==
    IF parts = <<>> THEN <<>>
    ELSE Head(parts) \o ConcatBytes(Tail(parts))

(***************************************************************************)
(* Hex strings.                                                            *)
(***************************************************************************)
HexDigits == <<"0", "1", "2", "3", "4", "5", "6", "7",
               "8", "9", "a", "b", "c", "d", "e", "f">>

\* byte.toString(16).padStart(2, '0') for every byte, joined
HexOfBytes(bytes) ==
    [i \in 1..(2 * Len(bytes)) |->
        IF i % 2 = 1 THEN HexDigits[(bytes[(i + 1) \div 2] \div 16) + 1]
                     ELSE HexDigits[(bytes[i \div 2] % 16) + 1]]

\* bytesToHex
BytesToHex(bytes) == <<"0", "x">> \o HexOfBytes(bytes)

\* strip0x: value.replace(/^0x/, '')
Strip0x(value) ==
    IF Len(value) >= 2 /\ value[1] = "0" /\ value[2] = "x"
        THEN SubSeq(value, 3, Len(value))
    ELSE value

(***************************************************************************)
(* Results of a call: a returned value or a thrown error.  An error's      *)
(* message is kept as its sequence of words.                               *)
(***************************************************************************)
Returned(v) == [kind |-> "returned", value |-> v]
Threw(msg) == [kind |-> "threw", message |-> msg]

SEGMENT_ERROR == <<"Each", "calldata", "segment", "must", "be", "32", "bytes">>
HEADER_ERROR == <<"Invalid", "DER", "sequence", "header">>
INTEGER_ERROR == <<"Invalid", "DER", "integer", "header">>

(***************************************************************************)
(* buildPrecompileCalldata.                                                *)
(***************************************************************************)
\* a plausible slip: some() where every() is meant
BuildPrecompileCalldataSome(messageHash, r, s, pubX, pubY) ==
    IF ~(\E segment \in {messageHash, r, s, pubX, pubY} :
            Len(segment) = TARGET_LENGTH)
        THEN Threw(SEGMENT_ERROR)
    ELSE Returned(BytesToHex(ConcatBytes(<<messageHash, r, s, pubX, pubY>>)))

\* a plausible slip: r and s change places in the payload
BuildPrecompileCalldataSwapped(messageHash, r, s, pubX, pubY) ==
    IF ~(\A segment \in {messageHash, r, s, pubX, pubY} :
            Len(segment) = TARGET_LENGTH)
        THEN Threw(SEGMENT_ERROR)
    ELSE Returned(BytesToHex(ConcatBytes(<<messageHash, s, r, pubX, pubY>>)))

BuildPrecompileCalldata(messageHash, r, s, pubX, pubY) ==
    IF ~(\A segment \in {messageHash, r, s, pubX, pubY} :
            Len(segment) = TARGET_LENGTH)
        THEN Threw(SEGMENT_ERROR)
    ELSE Returned(BytesToHex(ConcatBytes(<<messageHash, r, s, pubX, pubY>>)))

(***************************************************************************)
(* decodeDerSignature.                                                     *)
(***************************************************************************)
SEQUENCE_TAG == 48
INTEGER_TAG == 2
RAW_SIGNATURE_LENGTH == 64

\* value & 0x80 is non-zero; undefined & 0x80 is 0
HasLongFormBit(value) == value # Undefined /\ (value \div 128) % 2 = 1
\* value & 0x7f
LengthBytes(value) == value % 128

\* a plausible slip: the next INTEGER is looked for one byte too far
ReadIntegerSkipsAByte(bytes, offset) ==
    IF At(bytes, offset) # INTEGER_TAG
        THEN [threw |-> TRUE, offset |-> offset, value |-> <<>>]
    ELSE LET length == At(bytes, offset + 1)
             first  == offset + 2
             last   == IF length = Undefined THEN NaN ELSE first + length
         IN  [threw  |-> FALSE,
              offset |-> IF last = NaN THEN NaN ELSE last + 1,
              value  |-> Slice(bytes, first, last)]

\* a plausible slip: an INTEGER that runs past the input is refused
ReadIntegerChecksLength(bytes, offset) ==
    IF At(bytes, offset) # INTEGER_TAG
        THEN [threw |-> TRUE, offset |-> offset, value |-> <<>>]
    ELSE LET length == At(bytes, offset + 1)
             first  == offset + 2
             last   == IF length = Undefined THEN NaN ELSE first + length
         IN  [threw  |-> last = NaN \/ last > Len(bytes),
              offset |-> last,
              value  |-> Slice(bytes, first, last)]

\* readInteger(): the closure over bytes and offset; offset is returned
ReadInteger(bytes, offset) ==
    IF At(bytes, offset) # INTEGER_TAG
        THEN [threw |-> TRUE, offset |-> offset, value |-> <<>>]
    ELSE LET length == At(bytes, offset + 1)
             first  == offset + 2
             last   == IF length = Undefined THEN NaN ELSE first + length
         IN  [threw  |-> FALSE,
              offset |-> last,
              value  |-> Slice(bytes, first, last)]

\* a plausible slip: the long form is taken to have one length byte
FirstIntegerOffsetOneLengthByte(bytes) ==
    IF HasLongFormBit(At(bytes, 1)) THEN 3 ELSE 2

\* the offset of the first INTEGER: 2, or 2 + lengthBytes in the long form
FirstIntegerOffset(bytes) ==
    IF HasLongFormBit(At(bytes, 1)) THEN 2 + LengthBytes(At(bytes, 1)) ELSE 2

\* the part of decodeDerSignature after the header test
DecodeDerBody(bytes) ==
    LET first  == ReadInteger(bytes, FirstIntegerOffset(bytes))
        second == ReadInteger(bytes, first.offset)
    IN  IF first.threw THEN Threw(INTEGER_ERROR)
        ELSE IF second.threw THEN Threw(INTEGER_ERROR)
        ELSE Returned([r |-> LeftPad(TrimLeadingZeros(first.value)),
                       s |-> LeftPad(TrimLeadingZeros(second.value))])

\* a plausible slip: any input without the tag that is long enough is raw
DecodeDerSignatureAtLeast64(bytes) ==
    IF At(bytes, 0) # SEQUENCE_TAG
        THEN IF Len(bytes) >= RAW_SIGNATURE_LENGTH
                THEN Returned([r |-> Slice(bytes, 0, 32),
                               s |-> Slice(bytes, 32, 64)])
             ELSE Threw(HEADER_ERROR)
    ELSE DecodeDerBody(bytes)

DecodeDerSignature(bytes) ==
    IF At(bytes, 0) # SEQUENCE_TAG
        THEN IF Len(bytes) = RAW_SIGNATURE_LENGTH
                THEN Returned([r |-> Slice(bytes, 0, 32),
                               s |-> Slice(bytes, 32, 64)])
             ELSE Threw(HEADER_ERROR)
    ELSE DecodeDerBody(bytes)

(***************************************************************************)
(* The inputs the pure functions are applied to.                           *)
(***************************************************************************)
\* calldata segments: the right length, one byte short or long, and empty
SegmentLengths == {0, 31, 32, 33}
Segments == {Ramp(n, b) : n \in SegmentLengths, b \in {0, 127, 239}}

EncodeInputs ==
    [fn : {"buildPrecompileCalldata"},
     messageHash : Segments, r : Segments, s : Segments,
     pubX : Segments, pubY : Segments]

\* a 32-byte big-endian value with k leading zero bytes, then lead
LeadingZeros == {0, 1, 31, 32}
LeadBytes == {1, 127, 128, 255}
Significant(k, lead) ==
    IF k >= TARGET_LENGTH THEN <<>>
    ELSE <<lead>> \o Ramp(TARGET_LENGTH - k - 1, lead)
FieldValue(k, lead) == Fill(k, 0) \o Significant(k, lead)

\* the content of the minimal DER INTEGER of FieldValue(k, lead)
DerInteger(k, lead) ==
    IF k >= TARGET_LENGTH THEN <<0>>
    ELSE IF lead >= 128 THEN <<0>> \o Significant(k, lead)
    ELSE Significant(k, lead)

\* INTEGER contents no minimal encoding of a 32-byte value has
OddContents ==
    {<<>>, Ramp(29, 0), Ramp(33, 0), <<0, 0>> \o Ramp(32, 127),
     <<0>> \o Ramp(31, 0)}

IntegerContents ==
    {DerInteger(k, lead) : k \in LeadingZeros, lead \in LeadBytes}
        \cup OddContents

\* the header of a SEQUENCE of n content bytes, in the three length forms
SequenceHeaders(n) ==
    {<<SEQUENCE_TAG, n>>, <<SEQUENCE_TAG, 129, n>>, <<SEQUENCE_TAG, 130, 0, n>>}

IntegerTlv(content) == <<INTEGER_TAG, Len(content)>> \o content

\* SEQUENCE { INTEGER r, INTEGER s } with the short-form length
DerSequence(rContent, sContent) ==
    <<SEQUENCE_TAG, 4 + Len(rContent) + Len(sContent)>>
        \o IntegerTlv(rContent) \o IntegerTlv(sContent)

DerSignatures ==
    UNION {{header \o IntegerTlv(rc) \o IntegerTlv(sc) :
                header \in SequenceHeaders(4 + Len(rc) + Len(sc))} :
           rc \in IntegerContents, sc \in IntegerContents}

\* DER signatures cut short, and with bytes after the second INTEGER
DamagedSignatures ==
    LET base == {DerSequence(rc, sc) :
                    rc \in {DerInteger(0, 1), DerInteger(1, 128)},
                    sc \in {DerInteger(0, 1), DerInteger(0, 128)}}
    IN  {SubSeq(d, 1, Len(d) - cut) : d \in base, cut \in {1, 2, 33, 34}}
            \cup {d \o <<INTEGER_TAG, 1, 7>> : d \in base}

\* fixed-width r || s, and inputs one byte shorter and longer
RawSignatures ==
    {<<b>> \o Ramp(n - 1, c) :
        n \in {RAW_SIGNATURE_LENGTH - 1, RAW_SIGNATURE_LENGTH,
               RAW_SIGNATURE_LENGTH + 1},
        b \in {0, INTEGER_TAG, SEQUENCE_TAG, 255}, c \in {0, 47}}

\* every sequence of the bytes that steer the decoder, up to MaxSigLen
SmallBytes == {0, 1, INTEGER_TAG, SEQUENCE_TAG, 129}
SmallSignatures == UNION {[1..n -> SmallBytes] : n \in 0..MaxSigLen}

SignatureInputs ==
    SmallSignatures \cup DerSignatures \cup DamagedSignatures
        \cup RawSignatures

DecodeInputs == [fn : {"decodeDerSignature"}, signature : SignatureInputs]

(***************************************************************************)
(* The pure functions applied to their inputs.                             *)
(***************************************************************************)
\* useState(null): no payload, no error
Null == [kind |-> "null"]

\* the hook's state before any call: useState(null), useState('idle'),
\* useState(null)
HookIdle ==
    /\ status = "idle"
    /\ payload = Null
    /\ hookError = Null
    /\ calls = <<>>

\* the App's state before any event
DEFAULT_MESSAGE ==
    <<"A", "u", "t", "h", "o", "r", "i", "z", "e", " ", "t", "r", "a", "n",
      "s", "a", "c", "t", "i", "o", "n", " ", "#", "1", "2", "3", "4", "5">>
AppIdle ==
    /\ appMessage = DEFAULT_MESSAGE
    /\ appSignature = Null
    /\ verifyResult = Null
    /\ loading = <<>>
    /\ latestBlock = Undefined
    /\ handlers = <<>>
    /\ verified = Null

VerifyIdle ==
    /\ pc = "idle"
    /\ now = 0
    /\ start = Undefined
    /\ params = Unset
    /\ calldata = <<>>
    /\ blockNumber = Undefined
    /\ fullGas = Undefined
    /\ response = Unset
    /\ result = Unset
    /\ requests = <<>>
    /\ failure = Unset
    /\ failTime = Undefined

InitEncode ==
    /\ input \in EncodeInputs
    /\ output = NotCalled
    /\ VerifyIdle
    /\ HookIdle
    /\ AppIdle

CallBuildPrecompileCalldata ==
    /\ input.fn = "buildPrecompileCalldata"
    /\ output = NotCalled
    /\ output' = BuildPrecompileCalldata(input.messageHash, input.r, input.s,
                                         input.pubX, input.pubY)
    /\ UNCHANGED <<input, verifyVars, hookVars, appVars>>

NextEncode == CallBuildPrecompileCalldata

SpecEncode == InitEncode /\ [][NextEncode]_vars

InitDecode ==
    /\ input \in DecodeInputs
    /\ output = NotCalled
    /\ VerifyIdle
    /\ HookIdle
    /\ AppIdle

CallDecodeDerSignature ==
    /\ input.fn = "decodeDerSignature"
    /\ output = NotCalled
    /\ output' = DecodeDerSignature(input.signature)
    /\ UNCHANGED <<input, verifyVars, hookVars, appVars>>

NextDecode == CallDecodeDerSignature

SpecDecode == InitDecode /\ [][NextDecode]_vars

(***************************************************************************)
(* leftPad(trimLeadingZeros(bytes)), as decodeDerSignature applies the     *)
(* pair to each INTEGER, applied to a byte array and then to its own       *)
(* result.                                                                 *)
(***************************************************************************)
\* significant bytes: none, one, 31, 32 (low and high first byte), 33
SignificantBytes ==
    {<<>>, <<1>>, <<255>>, <<1, 0>>, Ramp(31, 0), Ramp(32, 0),
     <<128>> \o Ramp(31, 7), <<255>> \o Fill(31, 0), Ramp(33, 0)}
ZeroPrefixes == {0, 1, 2, 31, 32, 33, 40}

NormalizeInputs ==
    [fn    : {"leftPad(trimLeadingZeros)"},
     bytes : {Fill(z, 0) \o sig : z \in ZeroPrefixes, sig \in SignificantBytes}]

InitNormalize ==
    /\ input \in NormalizeInputs
    /\ output = NotCalled
    /\ VerifyIdle
    /\ HookIdle
    /\ AppIdle

\* leftPad(trimLeadingZeros(bytes))
CallNormalize ==
    /\ input.fn = "leftPad(trimLeadingZeros)"
    /\ output = NotCalled
    /\ output' = Returned(<<LeftPad(TrimLeadingZeros(input.bytes))>>)
    /\ UNCHANGED <<input, verifyVars, hookVars, appVars>>

\* the pair applied to what it returned
CallNormalizeAgain ==
    /\ input.fn = "leftPad(trimLeadingZeros)"
    /\ output # NotCalled
    /\ Len(output.value) = 1
    /\ output' = Returned(Append(output.value,
                                 LeftPad(TrimLeadingZeros(output.value[1]))))
    /\ UNCHANGED <<input, verifyVars, hookVars, appVars>>

NextNormalize == CallNormalize \/ CallNormalizeAgain

SpecNormalize == InitNormalize /\ [][NextNormalize]_vars

(***************************************************************************)
(* formatBytes.  A value is a hex string or a byte array.                  *)
(***************************************************************************)
HexString(chars) == [type |-> "string", chars |-> chars]
ByteArray(bytes) == [type |-> "bytes", bytes |-> bytes]

\* hexFromBytes: strip0x of a string, the hex of a byte array
HexFromBytes(value) ==
    IF value.type = "string" THEN Strip0x(value.chars)
    ELSE HexOfBytes(value.bytes)

\* String.prototype.slice(0, last): a negative end counts from the end
StringSliceFromStart(chars, last) ==
    LET to == IF last < 0 THEN Len(chars) + last
              ELSE IF last > Len(chars) THEN Len(chars)
              ELSE last
    IN  IF to <= 0 THEN <<>> ELSE SubSeq(chars, 1, to)

DEFAULT_MAX_LEN == 64
ELLIPSIS == <<".", ".", ".">>

\* a plausible slip: a value that fills the budget exactly is cut
FormatBytesStrictBudget(value, maxLenGiven) ==
    LET maxLen == IF maxLenGiven = Undefined THEN DEFAULT_MAX_LEN
                  ELSE maxLenGiven
        hex    == HexFromBytes(value)
    IN  IF maxLen > Len(hex) \/ Len(hex) < maxLen
            THEN <<"0", "x">> \o hex
        ELSE <<"0", "x">> \o StringSliceFromStart(hex, maxLen) \o ELLIPSIS

\* formatBytes(value, maxLen = 64)
FormatBytes(value, maxLenGiven) ==
    LET maxLen == IF maxLenGiven = Undefined THEN DEFAULT_MAX_LEN
                  ELSE maxLenGiven
        hex    == HexFromBytes(value)
    IN  IF maxLen >= Len(hex) \/ Len(hex) <= maxLen
            THEN <<"0", "x">> \o hex
        ELSE <<"0", "x">> \o StringSliceFromStart(hex, maxLen) \o ELLIPSIS

\* values of 0 to 3, 32 and 33 bytes, as byte arrays and as hex strings
\* with and without 0x; budgets around their lengths, and none given
FormatLengths == {0, 1, 2, 3, 32, 33}
FormatValues ==
    UNION {{ByteArray(Ramp(n, 9)), HexString(BytesToHex(Ramp(n, 9))),
            HexString(HexOfBytes(Ramp(n, 9)))} : n \in FormatLengths}
FormatBudgets == {Undefined, 0, 1, 2, 3, 4, 6, 63, 64, 65, 66}

FormatInputs ==
    [fn : {"formatBytes"}, value : FormatValues, maxLen : FormatBudgets]

InitFormat ==
    /\ input \in FormatInputs
    /\ output = NotCalled
    /\ VerifyIdle
    /\ HookIdle
    /\ AppIdle

CallFormatBytes ==
    /\ input.fn = "formatBytes"
    /\ output = NotCalled
    /\ output' = Returned(FormatBytes(input.value, input.maxLen))
    /\ UNCHANGED <<input, verifyVars, hookVars, appVars>>

NextFormat == CallFormatBytes

SpecFormat == InitFormat /\ [][NextFormat]_vars

(***************************************************************************)
(* buildCalldata and the interpretation of the precompile's response.      *)
(***************************************************************************)
HexSegmentNames == <<"messageHash", "r", "s", "pubX", "pubY">>

RECURSIVE JoinStrippedWithCommas(_, _)
\* a plausible slip: join() with its default separator
JoinStrippedWithCommas(p, names) ==
    IF names = <<>> THEN <<>>
    ELSE IF Len(names) = 1 THEN Strip0x(p[Head(names)])
    ELSE Strip0x(p[Head(names)]) \o <<",">>
             \o JoinStrippedWithCommas(p, Tail(names))

RECURSIVE JoinStripped(_, _)
\* [messageHash, r, s, pubX, pubY].map(strip0x).join('')
JoinStripped(p, names) ==
    IF names = <<>> THEN <<>>
    ELSE Strip0x(p[Head(names)]) \o JoinStripped(p, Tail(names))

\* buildCalldata: 0x and the five stripped segments; a segment that is not
\* there makes strip0x throw a TypeError
TYPE_ERROR ==
    [isError |-> TRUE,
     message |-> <<"Cannot", "read", "properties", "of", "undefined">>,
     string  |-> <<"TypeError:", "Cannot", "read", "properties", "of",
                   "undefined">>]

BuildCalldataThrows(p) ==
    \E i \in DOMAIN HexSegmentNames : HexSegmentNames[i] \notin DOMAIN p

RECURSIVE JoinUnstripped(_, _)
JoinUnstripped(p, names) ==
    IF names = <<>> THEN <<>>
    ELSE p[Head(names)] \o JoinUnstripped(p, Tail(names))

\* a plausible slip: the segments are joined with their 0x markers
BuildCalldataKeepsMarkers(p) ==
    <<"0", "x">> \o JoinUnstripped(p, HexSegmentNames)

\* `0x${[messageHash, r, s, pubX, pubY].map(strip0x).join('')}`
BuildCalldata(p) == <<"0", "x">> \o JoinStripped(p, HexSegmentNames)

\* hex segments as a caller may write them: 32 bytes with the 0x marker,
\* without it, in upper-case digits, one byte short, empty, the marker alone
UpperHexDigits == <<"0", "1", "2", "3", "4", "5", "6", "7",
                    "8", "9", "A", "B", "C", "D", "E", "F">>
UpperHexOfBytes(bytes) ==
    [i \in 1..(2 * Len(bytes)) |->
        IF i % 2 = 1 THEN UpperHexDigits[(bytes[(i + 1) \div 2] \div 16) + 1]
                     ELSE UpperHexDigits[(bytes[i \div 2] % 16) + 1]]

HexSegments(b) ==
    {BytesToHex(Ramp(32, b)), HexOfBytes(Ramp(32, b)),
     <<"0", "x">> \o UpperHexOfBytes(Ramp(32, b)),
     BytesToHex(Ramp(31, b)), <<>>, <<"0", "x">>}

HexEncodeInputs ==
    [fn          : {"buildCalldata"},
     messageHash : HexSegments(0),
     r           : HexSegments(32),
     s           : HexSegments(64),
     pubX        : HexSegments(96),
     pubY        : HexSegments(128)]

InitHexEncode ==
    /\ input \in HexEncodeInputs
    /\ output = NotCalled
    /\ VerifyIdle
    /\ HookIdle
    /\ AppIdle

CallBuildCalldata ==
    /\ input.fn = "buildCalldata"
    /\ output = NotCalled
    /\ output' = IF BuildCalldataThrows(input)
                     THEN Threw(TYPE_ERROR.message)
                 ELSE Returned(BuildCalldata(input))
    /\ UNCHANGED <<input, verifyVars, hookVars, appVars>>

NextHexEncode == CallBuildCalldata

SpecHexEncode == InitHexEncode /\ [][NextHexEncode]_vars

\* String.prototype.toLowerCase on the characters a response is made of
LowerCaseOf(c) ==
    CASE c = "X" -> "x"
      [] c = "A" -> "a" [] c = "B" -> "b" [] c = "C" -> "c"
      [] c = "D" -> "d" [] c = "E" -> "e" [] c = "F" -> "f"
      [] OTHER -> c
ToLowerCase(chars) == [i \in 1..Len(chars) |-> LowerCaseOf(chars[i])]

\* '0x0000000000000000000000000000000000000000000000000000000000000001'
TRUE_WORD == <<"0", "x">> \o Fill(63, "0") \o <<"1">>

\* typeof response === 'string' ? response : response.data, as a record
\* that says whether the value is defined
DataOf(resp) ==
    IF resp.type = "string" THEN [defined |-> TRUE, value |-> resp.value]
    ELSE IF "data" \in DOMAIN resp
        THEN [defined |-> TRUE, value |-> resp.data]
    ELSE [defined |-> FALSE, value |-> <<>>]

\* a plausible slip: the single zero byte counts as an empty response too
IsEmptyDataOrZeroByte(data) ==
    \/ ~data.defined
    \/ data.value = <<>>
    \/ data.value = <<"0", "x">>
    \/ data.value = <<"0", "x", "0">>
    \/ data.value = <<"0", "x", "0", "0">>

\* !data || data === '0x' || data === '0x0'
IsEmptyData(data) ==
    \/ ~data.defined
    \/ data.value = <<>>
    \/ data.value = <<"0", "x">>
    \/ data.value = <<"0", "x", "0">>

\* a plausible slip: the response is compared without toLowerCase()
IsTrueDataCaseSensitive(data) ==
    \/ data.value = TRUE_WORD
    \/ data.value = <<"0", "x", "0", "1">>
    \/ data.value = <<"0", "x", "1">>

\* normalized === 0x00..01 || normalized === '0x01' || normalized === '0x1'
IsTrueData(data) ==
    LET normalized == ToLowerCase(data.value)
    IN  \/ normalized = TRUE_WORD
        \/ normalized = <<"0", "x", "0", "1">>
        \/ normalized = <<"0", "x", "1">>

\* callP256Precompile, from the response of client.call on
CallP256PrecompileVerdict(resp) ==
    LET data == DataOf(resp)
    IN  IF IsEmptyData(data) THEN FALSE
        ELSE LET normalized == ToLowerCase(data.value)
             IN  \/ normalized = TRUE_WORD
                 \/ normalized = <<"0", "x", "0", "1">>
                 \/ normalized = <<"0", "x", "1">>

(***************************************************************************)
(* verifyOnChain.                                                          *)
(***************************************************************************)
P256_PRECOMPILE == <<"0", "x">> \o Fill(37, "0") \o <<"1", "0", "0">>
CALL_GAS == 100000
PRECOMPILE_GAS_FALLBACK == 3450
BASE_OVERHEAD == 21000 + 160 * 16

\* Math.round of a duration given in half milliseconds
RoundMs(halfMs) == (halfMs + 1) \div 2

\* a plausible slip: >= where > is meant
PrecompileGasAtLeast(gas) ==
    IF gas >= BASE_OVERHEAD THEN gas - BASE_OVERHEAD
    ELSE PRECOMPILE_GAS_FALLBACK

\* fullGas > BASE_OVERHEAD ? fullGas - BASE_OVERHEAD : PRECOMPILE_GAS_FALLBACK
PrecompileGas(gas) ==
    IF gas > BASE_OVERHEAD THEN gas - BASE_OVERHEAD
    ELSE PRECOMPILE_GAS_FALLBACK

\* error instanceof Error && error.message ? error.message : String(error)
ErrorMessage(error) ==
    IF error.isError /\ error.message # <<>> THEN error.message
    ELSE error.string

\* a plausible slip: the catch block reports a fixed text and no latency
CatchResultDropsTheError(error, startedAt) ==
    [valid |-> FALSE, error |-> <<"Verification", "failed">>]

\* the catch block: { valid: false, error: message, rpcLatency }
CatchResult(error, startedAt) ==
    [valid      |-> FALSE,
     error      |-> ErrorMessage(error),
     rpcLatency |-> RoundMs(now - startedAt)]

EMPTY_RESPONSE_ERROR ==
    <<"Empty", "response", "(precompile", "not", "active)">>

\* a plausible slip: the verdict also requires a block number
TryResultNeedsBlockNumber(resp) ==
    LET rpcLatency    == RoundMs(now - start)
        data          == DataOf(resp)
        precompileGas == PrecompileGas(fullGas)
    IN  IF IsEmptyData(data)
            THEN [valid        |-> FALSE,
                  error        |-> EMPTY_RESPONSE_ERROR,
                  gasUsed      |-> precompileGas,
                  totalCallGas |-> fullGas,
                  blockNumber  |-> blockNumber,
                  rpcLatency   |-> rpcLatency]
        ELSE [valid        |-> IsTrueData(data) /\ blockNumber # 0,
              gasUsed      |-> precompileGas,
              totalCallGas |-> fullGas,
              blockNumber  |-> blockNumber,
              rpcLatency   |-> rpcLatency]

\* lines 254-288: the VerifyResult built from the three responses
TryResult(resp) ==
    LET rpcLatency    == RoundMs(now - start)
        data          == DataOf(resp)
        precompileGas == PrecompileGas(fullGas)
    IN  IF IsEmptyData(data)
            THEN [valid        |-> FALSE,
                  error        |-> EMPTY_RESPONSE_ERROR,
                  gasUsed      |-> precompileGas,
                  totalCallGas |-> fullGas,
                  blockNumber  |-> blockNumber,
                  rpcLatency   |-> rpcLatency]
        ELSE [valid        |-> IsTrueData(data),
              gasUsed      |-> precompileGas,
              totalCallGas |-> fullGas,
              blockNumber  |-> blockNumber,
              rpcLatency   |-> rpcLatency]

\* the requests verifyOnChain issues
BlockNumberRequest == [method |-> "getBlockNumber", cacheTime |-> 0]
EstimateGasRequest(data) ==
    [method |-> "estimateGas", to |-> P256_PRECOMPILE, data |-> data]
CallRequest(data) ==
    [method |-> "call", to |-> P256_PRECOMPILE, data |-> data,
     gas |-> CALL_GAS]

(***************************************************************************)
(* What verifyOnChain is given and what the client answers.                *)
(***************************************************************************)
WellFormedParams ==
    [messageHash |-> BytesToHex(Ramp(32, 0)),
     r           |-> BytesToHex(Ramp(32, 32)),
     s           |-> BytesToHex(Ramp(32, 64)),
     pubX        |-> BytesToHex(Ramp(32, 96)),
     pubY        |-> BytesToHex(Ramp(32, 128))]

\* the same segments without the 0x marker
UnprefixedParams ==
    [f \in DOMAIN WellFormedParams |-> Strip0x(WellFormedParams[f])]

\* r is one byte short
ShortParams == [WellFormedParams EXCEPT !.r = BytesToHex(Ramp(31, 32))]

\* r is not there at run time
MissingParams ==
    [f \in DOMAIN WellFormedParams \ {"r"} |-> WellFormedParams[f]]

ParamsInputs ==
    {WellFormedParams, UnprefixedParams, ShortParams, MissingParams}

\* values a rejected request throws: an Error with a message, an Error
\* without one, and a thrown string
Failures ==
    {[isError |-> TRUE, message |-> <<"fetch", "failed">>,
      string |-> <<"Error:", "fetch", "failed">>],
     [isError |-> TRUE, message |-> <<>>, string |-> <<"Error">>],
     [isError |-> FALSE, message |-> <<>>, string |-> <<"timeout">>]}

BlockNumbers == {0, 21000000}
GasEstimates == {20000, 23560, 23561, 25000}

ResponsePrefixes == {<<>>, <<"0", "x">>, <<"0", "X">>}
ResponseDigits == {"0", "1", "2"}
ShortData ==
    {pre \o digits :
        pre \in ResponsePrefixes,
        digits \in UNION {[1..n -> ResponseDigits] : n \in 0..MaxDigits}}
LongData ==
    {pre \o Fill(63, "0") \o <<c>> :
        pre \in ResponsePrefixes \ {<<>>}, c \in ResponseDigits}
        \cup {<<"0", "x", "1">> \o Fill(63, "0")}
ResponseData == ShortData \cup LongData

\* client.call resolves with a string, or with an object whose data may be
\* absent
Responses ==
    {[type |-> "string", value |-> d] : d \in ResponseData}
        \cup {[type |-> "object", data |-> d] : d \in ResponseData}
        \cup {[type |-> "object"]}

(***************************************************************************)
(* verifyOnChain, one action per await point.                              *)
(***************************************************************************)
Init ==
    /\ input = [fn |-> "callP256Precompile"]
    /\ output = NotCalled
    /\ VerifyIdle
    /\ HookIdle
    /\ AppIdle

\* performance.now() advances while the attempt is not settled
Tick ==
    /\ pc # "settled"
    /\ now < MaxTime
    /\ now' = now + 1
    /\ UNCHANGED <<hookVars, appVars>>
    /\ UNCHANGED <<input, output, pc, start, params, calldata, blockNumber,
                   fullGas, response, result, requests, failure, failTime>>

\* a plausible slip: the catch block records the failure and keeps waiting
CatchKeepsWaiting(error, startedAt) ==
    /\ failure' = error
    /\ failTime' = now
    /\ result' = CatchResult(error, startedAt)
    /\ pc' = pc

\* the catch block, entered with the value thrown in the try block
Catch(error, startedAt) ==
    /\ failure' = error
    /\ failTime' = now
    /\ result' = CatchResult(error, startedAt)
    /\ pc' = "settled"

\* lines 233-242: start the timer, build the calldata, ask for the block
StartAttempt(p) ==
    /\ pc = "idle"
    /\ start' = now
    /\ params' = p
    /\ IF BuildCalldataThrows(p)
          THEN /\ Catch(TYPE_ERROR, now)
               /\ UNCHANGED <<calldata, requests>>
          ELSE /\ calldata' = BuildCalldata(p)
               /\ requests' = <<BlockNumberRequest>>
               /\ pc' = "block"
               /\ UNCHANGED <<result, failure, failTime>>
    /\ UNCHANGED <<now, blockNumber, fullGas, response>>

\* verifyOnChain is called and nothing else happens
Start(p) ==
    /\ StartAttempt(p)
    /\ UNCHANGED <<input, output, hookVars, appVars>>

\* a plausible slip: the gas estimate and the call are issued together
BlockNumberResolvesIssuesBoth(n) ==
    /\ pc = "block"
    /\ blockNumber' = n
    /\ requests' = requests \o <<EstimateGasRequest(calldata),
                                 CallRequest(calldata)>>
    /\ pc' = "gas"
    /\ UNCHANGED <<hookVars, appVars>>
    /\ UNCHANGED <<input, output, now, start, params, calldata, fullGas,
                   response, result, failure, failTime>>

\* line 242 resolves; line 243 asks for the gas estimate
BlockNumberResolves(n) ==
    /\ pc = "block"
    /\ blockNumber' = n
    /\ requests' = Append(requests, EstimateGasRequest(calldata))
    /\ pc' = "gas"
    /\ UNCHANGED <<hookVars, appVars>>
    /\ UNCHANGED <<input, output, now, start, params, calldata, fullGas,
                   response, result, failure, failTime>>

BlockNumberRejects(error) ==
    /\ pc = "block"
    /\ Catch(error, start)
    /\ UNCHANGED <<hookVars, appVars>>
    /\ UNCHANGED <<input, output, now, start, params, calldata, blockNumber,
                   fullGas, response, requests>>

\* line 243 resolves; line 248 issues the call
EstimateGasResolves(gas) ==
    /\ pc = "gas"
    /\ fullGas' = gas
    /\ requests' = Append(requests, CallRequest(calldata))
    /\ pc' = "call"
    /\ UNCHANGED <<hookVars, appVars>>
    /\ UNCHANGED <<input, output, now, start, params, calldata, blockNumber,
                   response, result, failure, failTime>>

EstimateGasRejects(error) ==
    /\ pc = "gas"
    /\ Catch(error, start)
    /\ UNCHANGED <<hookVars, appVars>>
    /\ UNCHANGED <<input, output, now, start, params, calldata, blockNumber,
                   fullGas, response, requests>>

\* line 248 resolves; lines 254-288 build the result
CallResolves(resp) ==
    /\ pc = "call"
    /\ response' = resp
    /\ result' = TryResult(resp)
    /\ pc' = "settled"
    /\ UNCHANGED <<hookVars, appVars>>
    /\ UNCHANGED <<input, output, now, start, params, calldata, blockNumber,
                   fullGas, requests, failure, failTime>>

CallRejects(error) ==
    /\ pc = "call"
    /\ Catch(error, start)
    /\ UNCHANGED <<hookVars, appVars>>
    /\ UNCHANGED <<input, output, now, start, params, calldata, blockNumber,
                   fullGas, response, requests>>

\* callP256Precompile on the same calldata, its client.call resolving with
\* the response verifyOnChain got
CallP256Precompile ==
    /\ pc = "settled"
    /\ response # Unset
    /\ output = NotCalled
    /\ output' = Returned(CallP256PrecompileVerdict(response))
    /\ UNCHANGED <<input, verifyVars, hookVars, appVars>>

Next ==
    \/ Tick
    \/ \E p \in ParamsInputs : Start(p)
    \/ \E n \in BlockNumbers : BlockNumberResolves(n)
    \/ \E error \in Failures : BlockNumberRejects(error)
    \/ \E gas \in GasEstimates : EstimateGasResolves(gas)
    \/ \E error \in Failures : EstimateGasRejects(error)
    \/ \E resp \in Responses : CallResolves(resp)
    \/ \E error \in Failures : CallRejects(error)
    \/ CallP256Precompile

Spec == Init /\ [][Next]_vars

\* every request issued is eventually answered: its promise resolves or
\* rejects
BlockNumberAnswered ==
    \/ \E n \in BlockNumbers : BlockNumberResolves(n)
    \/ \E error \in Failures : BlockNumberRejects(error)

EstimateGasAnswered ==
    \/ \E gas \in GasEstimates : EstimateGasResolves(gas)
    \/ \E error \in Failures : EstimateGasRejects(error)

CallAnswered ==
    \/ \E resp \in Responses : CallResolves(resp)
    \/ \E error \in Failures : CallRejects(error)

SpecAnswered ==
    /\ Spec
    /\ WF_vars(BlockNumberAnswered)
    /\ WF_vars(EstimateGasAnswered)
    /\ WF_vars(CallAnswered)

(***************************************************************************)
(* verifyOnChain against a client whose three answers are fixed before the *)
(* attempt starts, so that attempts differing in one answer only can be    *)
(* compared.                                                               *)
(***************************************************************************)
Resolved(value) == [ok |-> TRUE, value |-> value]
Rejected(error) == [ok |-> FALSE, error |-> error]

AnswersTo(values) ==
    {Resolved(v) : v \in values} \cup {Rejected(e) : e \in Failures}

\* the responses that decide the verdict, one of each kind
ScriptedResponses ==
    {[type |-> "object"],
     [type |-> "string", value |-> <<"0", "x">>],
     [type |-> "object", data |-> <<"0", "x", "0", "0">>],
     [type |-> "object", data |-> <<"0", "x", "0", "1">>],
     [type |-> "string", value |-> <<"0", "X", "1">>],
     [type |-> "object", data |-> <<"0", "x", "2">>],
     [type |-> "object", data |-> TRUE_WORD]}

ScriptedInputs ==
    [fn     : {"verifyOnChain"},
     params : ParamsInputs,
     block  : AnswersTo(BlockNumbers),
     gas    : AnswersTo(GasEstimates),
     call   : AnswersTo(ScriptedResponses)]

InitScripted ==
    /\ input \in ScriptedInputs
    /\ output = NotCalled
    /\ VerifyIdle
    /\ HookIdle
    /\ AppIdle

NextScripted ==
    \/ Tick
    \/ Start(input.params)
    \/ input.block.ok /\ BlockNumberResolves(input.block.value)
    \/ ~input.block.ok /\ BlockNumberRejects(input.block.error)
    \/ input.gas.ok /\ EstimateGasResolves(input.gas.value)
    \/ ~input.gas.ok /\ EstimateGasRejects(input.gas.error)
    \/ input.call.ok /\ CallResolves(input.call.value)
    \/ ~input.call.ok /\ CallRejects(input.call.error)

SpecScripted == InitScripted /\ [][NextScripted]_vars

(***************************************************************************)
(* usePasskey (frontend/src/usePasskey.ts): the hook's state and its       *)
(* signMessage and reset callbacks, one action per await point.  Several   *)
(* signMessage calls may be in flight on the same hook.                    *)
(***************************************************************************)
CRYPTO_ERROR ==
    <<"Web", "Crypto", "API", "is", "not", "available", "in", "this",
      "environment">>
MESSAGE_ERROR == <<"Message", "is", "required">>
KEY_ERROR ==
    <<"Public", "key", "is", "not", "a", "valid", "uncompressed", "point">>
UNEXPECTED_ERROR == <<"Unexpected", "passkey", "error">>

Pending == [kind |-> "pending"]
StringOf(words) == [kind |-> "string", value |-> words]

\* new Error(message)
ErrorOf(message) ==
    [isError |-> TRUE, message |-> message,
     string |-> <<"Error:">> \o message]

RECURSIVE TrimLeft(_)
TrimLeft(text) ==
    IF text # <<>> /\ Head(text) = " " THEN TrimLeft(Tail(text)) ELSE text

RECURSIVE TrimRight(_)
TrimRight(text) ==
    IF text # <<>> /\ text[Len(text)] = " "
        THEN TrimRight(SubSeq(text, 1, Len(text) - 1))
    ELSE text

\* message.trim()
Trim(text) == TrimRight(TrimLeft(text))

\* the digest of the message: 32 bytes that depend on the message
Sha256(text) == Ramp(32, 16 * Len(text))

\* err instanceof Error ? err.message : 'Unexpected passkey error'
MessageError(err) == IF err.isError THEN err.message ELSE UNEXPECTED_ERROR

\* what the user types, what crypto.subtle.sign resolves with (r || s of
\* fixed width, as Web Crypto specifies, or DER), what exportKey('raw')
\* resolves with
Messages == {<<>>, <<" ">>, <<" ", "o", "k", " ">>}
SignOutputs ==
    {Ramp(64, 0), <<SEQUENCE_TAG>> \o Ramp(63, 0),
     DerSequence(DerInteger(0, 128), DerInteger(1, 1))}
ExportedKeys == {<<4>> \o Ramp(64, 100), Ramp(64, 100)}
\* what a rejected promise throws: an Error, or a value that is not one
Rejections == {f \in Failures : f.message # <<>> \/ ~f.isError}

HookInputs == [fn : {"signMessage"}, subtle : BOOLEAN]

InitHook ==
    /\ input \in HookInputs
    /\ output = NotCalled
    /\ VerifyIdle
    /\ HookIdle
    /\ AppIdle

\* lines 39-50: signMessage up to its first await
SignMessageCall(message) ==
    /\ Len(calls) < MaxCalls
    /\ LET trimmed == Trim(message)
           call    == [pc |-> "start", trimmed |-> trimmed,
                       signatureDer |-> <<>>, outcome |-> Pending]
       IN  IF ~input.subtle
               THEN /\ calls' = Append(calls,
                           [call EXCEPT !.outcome = Threw(CRYPTO_ERROR)])
                    /\ UNCHANGED <<status, hookError>>
           ELSE IF trimmed = <<>>
               THEN /\ status' = "error"
                    /\ hookError' = StringOf(MESSAGE_ERROR)
                    /\ calls' = Append(calls,
                           [call EXCEPT !.outcome = Threw(MESSAGE_ERROR)])
           ELSE /\ status' = "working"
                /\ hookError' = Null
                /\ calls' = Append(calls, [call EXCEPT !.pc = "generateKey"])
    /\ UNCHANGED payload

\* signMessage is called and nothing else happens
SignMessage(message) ==
    /\ SignMessageCall(message)
    /\ UNCHANGED <<input, output, verifyVars, appVars>>

\* the call is suspended at one of its awaits
Awaiting(i, at) ==
    /\ i \in 1..Len(calls)
    /\ calls[i].pc = at
    /\ calls[i].outcome = Pending

\* lines 107-113: the catch block of call i
CatchSign(i, err) ==
    /\ hookError' = StringOf(MessageError(err))
    /\ status' = "error"
    /\ calls' = [calls EXCEPT ![i].outcome = Threw(MessageError(err))]
    /\ UNCHANGED payload

\* line 56 resolves; line 62 asks for the signature
GenerateKeyResolves(i) ==
    /\ Awaiting(i, "generateKey")
    /\ calls' = [calls EXCEPT ![i].pc = "sign"]
    /\ UNCHANGED <<status, payload, hookError, input, output, verifyVars,
                   appVars>>

\* line 62 resolves; line 68 asks for the digest
SignResolves(i, signature) ==
    /\ Awaiting(i, "sign")
    /\ calls' = [calls EXCEPT ![i].pc = "sha256",
                              ![i].signatureDer = signature]
    /\ UNCHANGED <<status, payload, hookError, input, output, verifyVars,
                   appVars>>

\* line 68 resolves; line 70 asks for the public key
Sha256Resolves(i) ==
    /\ Awaiting(i, "sha256")
    /\ calls' = [calls EXCEPT ![i].pc = "exportKey"]
    /\ UNCHANGED <<status, payload, hookError, input, output, verifyVars,
                   appVars>>

\* one of the four awaited promises rejects
AwaitRejects(i, err) ==
    /\ \E at \in {"generateKey", "sign", "sha256", "exportKey"} :
          Awaiting(i, at)
    /\ CatchSign(i, err)
    /\ UNCHANGED <<input, output, verifyVars,
                   appVars>>

\* lines 89-102: the payload of a finished call
NextPayload(trimmed, digest, r, s, pubX, pubY, built) ==
    [message     |-> trimmed,
     messageHash |-> BytesToHex(digest),
     signature   |-> [r |-> BytesToHex(r), s |-> BytesToHex(s)],
     publicKey   |-> [x |-> BytesToHex(pubX), y |-> BytesToHex(pubY)],
     calldata    |-> built,
     createdAt   |-> now]

\* lines 73-106 as one value: what the rest of the try block returns or
\* throws, given the exported key
FinishSign(call, publicKeyRaw) ==
    LET digest  == Sha256(call.trimmed)
        pubX    == Slice(publicKeyRaw, 1, 33)
        pubY    == Slice(publicKeyRaw, 33, 65)
        decoded == DecodeDerSignature(call.signatureDer)
        built   == BuildPrecompileCalldata(digest, decoded.value.r,
                                           decoded.value.s, pubX, pubY)
    IN  IF Len(publicKeyRaw) # 65 \/ publicKeyRaw[1] # 4
            THEN Threw(KEY_ERROR)
        ELSE IF decoded.kind = "threw" THEN decoded
        ELSE IF built.kind = "threw" THEN built
        ELSE Returned(NextPayload(call.trimmed, digest, decoded.value.r,
                                  decoded.value.s, pubX, pubY, built.value))

\* line 70 resolves; lines 73-106 run to the return or into the catch block
ExportKeyResolves(i, publicKeyRaw) ==
    /\ Awaiting(i, "exportKey")
    /\ LET finished == FinishSign(calls[i], publicKeyRaw)
       IN  IF finished.kind = "threw"
               THEN CatchSign(i, ErrorOf(finished.message))
           ELSE /\ payload' = finished.value
                /\ status' = "ready"
                /\ calls' = [calls EXCEPT ![i].outcome = finished]
                /\ UNCHANGED hookError
    /\ UNCHANGED <<input, output, verifyVars,
                   appVars>>

\* lines 116-120: reset
Reset ==
    /\ payload' = Null
    /\ status' = "idle"
    /\ hookError' = Null
    /\ UNCHANGED <<calls, input, output, verifyVars,
                   appVars>>

NextHook ==
    \/ \E message \in Messages : SignMessage(message)
    \/ \E i \in 1..MaxCalls : GenerateKeyResolves(i)
    \/ \E i \in 1..MaxCalls, signature \in SignOutputs :
          SignResolves(i, signature)
    \/ \E i \in 1..MaxCalls : Sha256Resolves(i)
    \/ \E i \in 1..MaxCalls, publicKeyRaw \in ExportedKeys :
          ExportKeyResolves(i, publicKeyRaw)
    \/ \E i \in 1..MaxCalls, err \in Rejections : AwaitRejects(i, err)
    \/ Reset

SpecHook == InitHook /\ [][NextHook]_vars

(***************************************************************************)
(* App (the component that owns the page): its state, the two button       *)
(* handlers, the message box and the block refresh.  A handler in flight   *)
(* is an entry of handlers; it ends in a step of its own, when the promise *)
(* it awaits has settled.                                                  *)
(***************************************************************************)
LOADING_SIGN == <<"Generating", "P-256", "keypair", "&", "signing...">>
LOADING_VERIFY == <<"Verifying", "on", "Ethereum", "mainnet...">>

\* the VerifyParams handleVerify builds from the signature in state
ParamsOf(signed) ==
    [messageHash |-> signed.messageHash,
     r           |-> signed.signature.r,
     s           |-> signed.signature.s,
     pubX        |-> signed.publicKey.x,
     pubY        |-> signed.publicKey.y]

\* a sequence without its element i
Without(seq, i) == SubSeq(seq, 1, i - 1) \o SubSeq(seq, i + 1, Len(seq))

\* what the user types, and what the browser and the node answer the App
TypedMessages == {DEFAULT_MESSAGE, <<"o", "k">>}
AppSignOutputs == {Ramp(64, 0)}
AppExportedKeys == {<<4>> \o Ramp(64, 100)}
AppRejections == {f \in Rejections : ~f.isError}
AppBlockNumbers == {21000000}
RefreshedBlocks == {21000001}
AppGasEstimates == {25000}
AppResponses ==
    {[type |-> "string", value |-> <<"0", "x">>],
     [type |-> "object", data |-> <<"0", "x", "0", "1">>]}

AppInputs == [fn : {"App"}, subtle : BOOLEAN]

InitApp ==
    /\ input \in AppInputs
    /\ output = NotCalled
    /\ VerifyIdle
    /\ HookIdle
    /\ AppIdle

\* onChange of the message box
ChangeMessage(typed) ==
    /\ appMessage' = typed
    /\ UNCHANGED <<appSignature, verifyResult, loading, latestBlock,
                   handlers, verified, input, output, verifyVars, hookVars>>

\* the block refresh of the effect resolves; its failures are ignored
RefreshResolves(block) ==
    /\ latestBlock' = block
    /\ UNCHANGED <<appMessage, appSignature, verifyResult, loading,
                   handlers, verified, input, output, verifyVars, hookVars>>

\* the sign button is enabled: disabled={Boolean(loading) || !isSupported}
SignEnabled == loading = <<>> /\ input.subtle

\* the verify button is enabled: disabled={Boolean(loading)}
VerifyEnabled == loading = <<>>

\* lines 69-72: handleSign up to its await
HandleSign ==
    /\ SignEnabled
    /\ loading' = LOADING_SIGN
    /\ SignMessageCall(appMessage)
    /\ handlers' = Append(handlers, [kind |-> "sign", call |-> Len(calls) + 1])
    /\ UNCHANGED <<appMessage, appSignature, verifyResult, latestBlock,
                   verified, input, output, verifyVars>>

\* a plausible slip: handleSign without its setVerifyResult(null)
HandleSignEndsKeepsResult(h) ==
    /\ h \in 1..Len(handlers)
    /\ handlers[h].kind = "sign"
    /\ calls[handlers[h].call].outcome # Pending
    /\ IF calls[handlers[h].call].outcome.kind = "returned"
          THEN /\ appSignature' = calls[handlers[h].call].outcome.value
               /\ UNCHANGED <<verifyResult, verified>>
       ELSE UNCHANGED <<appSignature, verifyResult, verified>>
    /\ loading' = <<>>
    /\ handlers' = Without(handlers, h)
    /\ UNCHANGED <<appMessage, latestBlock, input, output, verifyVars,
                   hookVars>>

\* lines 72-77: the signMessage call has ended; the rest of handleSign
HandleSignEnds(h) ==
    /\ h \in 1..Len(handlers)
    /\ handlers[h].kind = "sign"
    /\ calls[handlers[h].call].outcome # Pending
    /\ IF calls[handlers[h].call].outcome.kind = "returned"
          THEN /\ appSignature' = calls[handlers[h].call].outcome.value
               /\ verifyResult' = Null
               /\ verified' = Null
       ELSE UNCHANGED <<appSignature, verifyResult, verified>>
    /\ loading' = <<>>
    /\ handlers' = Without(handlers, h)
    /\ UNCHANGED <<appMessage, latestBlock, input, output, verifyVars,
                   hookVars>>

\* lines 80-92: handleVerify up to its await
HandleVerify ==
    /\ VerifyEnabled
    /\ IF appSignature = Null
          THEN UNCHANGED <<loading, handlers, verifyVars>>
       ELSE /\ loading' = LOADING_VERIFY
            /\ StartAttempt(ParamsOf(appSignature))
            /\ handlers' = Append(handlers, [kind      |-> "verify",
                                             signature |-> appSignature])
    /\ UNCHANGED <<appMessage, appSignature, verifyResult, latestBlock,
                   verified, input, output, hookVars>>

\* lines 92-99: verifyOnChain has resolved; the rest of handleVerify.  The
\* attempt's own variables are gone with it.
HandleVerifyEnds(h) ==
    /\ h \in 1..Len(handlers)
    /\ handlers[h].kind = "verify"
    /\ pc = "settled"
    /\ verifyResult' = result
    /\ verified' = handlers[h].signature
    /\ latestBlock' = IF "blockNumber" \in DOMAIN result
                            /\ result.blockNumber # 0
                          THEN result.blockNumber
                      ELSE latestBlock
    /\ loading' = <<>>
    /\ handlers' = Without(handlers, h)
    /\ pc' = "idle"
    /\ start' = Undefined
    /\ params' = Unset
    /\ calldata' = <<>>
    /\ blockNumber' = Undefined
    /\ fullGas' = Undefined
    /\ response' = Unset
    /\ result' = Unset
    /\ requests' = <<>>
    /\ failure' = Unset
    /\ failTime' = Undefined
    /\ UNCHANGED <<now, appMessage, appSignature, input, output, hookVars>>

NextApp ==
    \/ \E typed \in TypedMessages : ChangeMessage(typed)
    \/ \E block \in RefreshedBlocks : RefreshResolves(block)
    \/ HandleSign
    \/ \E i \in 1..MaxCalls : GenerateKeyResolves(i)
    \/ \E i \in 1..MaxCalls, signature \in AppSignOutputs :
          SignResolves(i, signature)
    \/ \E i \in 1..MaxCalls : Sha256Resolves(i)
    \/ \E i \in 1..MaxCalls, publicKeyRaw \in AppExportedKeys :
          ExportKeyResolves(i, publicKeyRaw)
    \/ \E i \in 1..MaxCalls, err \in AppRejections : AwaitRejects(i, err)
    \/ \E h \in 1..MaxCalls : HandleSignEnds(h)
    \/ HandleVerify
    \/ \E n \in AppBlockNumbers : BlockNumberResolves(n)
    \/ \E error \in AppRejections : BlockNumberRejects(error)
    \/ \E gas \in AppGasEstimates : EstimateGasResolves(gas)
    \/ \E error \in AppRejections : EstimateGasRejects(error)
    \/ \E resp \in AppResponses : CallResolves(resp)
    \/ \E error \in AppRejections : CallRejects(error)
    \/ \E h \in 1..MaxCalls : HandleVerifyEnds(h)

SpecApp == InitApp /\ [][NextApp]_vars

(***************************************************************************)
(* Properties of buildPrecompileCalldata, under SpecEncode.                *)
(***************************************************************************)
\* the value of one hex digit, read back independently of HexDigits
HexDigitValue(c) ==
    CASE c = "0" -> 0  [] c = "1" -> 1  [] c = "2" -> 2  [] c = "3" -> 3
      [] c = "4" -> 4  [] c = "5" -> 5  [] c = "6" -> 6  [] c = "7" -> 7
      [] c = "8" -> 8  [] c = "9" -> 9  [] c = "a" -> 10 [] c = "b" -> 11
      [] c = "c" -> 12 [] c = "d" -> 13 [] c = "e" -> 14 [] c = "f" -> 15
      [] OTHER -> 16

\* the bytes a string of hex digit pairs encodes
ParseHex(chars) ==
    [i \in 1..(Len(chars) \div 2) |->
        16 * HexDigitValue(chars[2 * i - 1]) + HexDigitValue(chars[2 * i])]

EncodeCalled == input.fn = "buildPrecompileCalldata" /\ output # NotCalled

SegmentNames == {"messageHash", "r", "s", "pubX", "pubY"}
WrongLength == {f \in SegmentNames : Len(input[f]) # 32}

\* the words by which an error message could name a field
FieldWords(f) ==
    CASE f = "messageHash" -> {"messageHash", "hash", "Hash"}
      [] f = "r" -> {"r", "R"}
      [] f = "s" -> {"s", "S"}
      [] f = "pubX" -> {"pubX", "x", "X"}
      [] f = "pubY" -> {"pubY", "y", "Y"}

MessageNames(message, f) ==
    \E i \in DOMAIN message : message[i] \in FieldWords(f)

\* C1: on five segments of exactly 32 bytes buildPrecompileCalldata returns
\* 0x followed by the hex of exactly 160 bytes, which are messageHash, r, s,
\* pubX, pubY in that order, no byte altered.
C1_CalldataIsTheFiveSegments ==
    (EncodeCalled /\ WrongLength = {}) =>
        /\ output.kind = "returned"
        /\ Len(output.value) = 2 + 2 * 160
        /\ SubSeq(output.value, 1, 2) = <<"0", "x">>
        /\ ParseHex(SubSeq(output.value, 3, Len(output.value)))
             = input.messageHash \o input.r \o input.s
                 \o input.pubX \o input.pubY

\* five well-formed segments, pairwise different where order could hide
C1_Witness ==
    /\ EncodeCalled
    /\ WrongLength = {}
    /\ output.kind = "returned"
    /\ input.r # input.s
    /\ input.messageHash # input.pubY
    /\ input.pubX # input.pubY

DecodeCalled == input.fn = "decodeDerSignature" /\ output # NotCalled

\* C3: every input of exactly 64 bytes, whatever its first byte, decodes to
\* r = bytes[0:32] and s = bytes[32:64] unchanged.
C3_Raw64IsSplit ==
    (DecodeCalled /\ Len(input.signature) = 64) =>
        /\ output.kind = "returned"
        /\ output.value.r = SubSeq(input.signature, 1, 32)
        /\ output.value.s = SubSeq(input.signature, 33, 64)

\* C4: the minimal DER encoding of a pair of 32-byte values decodes to the
\* same two 32-byte values, whether an INTEGER got a sign byte (33 bytes),
\* lost leading zeros (31 bytes or fewer), or is zero.
C4_DerRoundTrip ==
    \A kr \in LeadingZeros, ks \in LeadingZeros :
        \A lr \in LeadBytes, ls \in LeadBytes :
            (/\ DecodeCalled
             /\ input.signature
                  = DerSequence(DerInteger(kr, lr), DerInteger(ks, ls)))
            => output = Returned([r |-> FieldValue(kr, lr),
                                  s |-> FieldValue(ks, ls)])

\* r needs a sign byte (33-byte INTEGER), s lost a leading zero (31 bytes)
C4_Witness ==
    /\ DecodeCalled
    /\ input.signature = DerSequence(DerInteger(0, 128), DerInteger(1, 1))
    /\ Len(DerInteger(0, 128)) = 33
    /\ Len(DerInteger(1, 1)) = 31
    /\ output.kind = "returned"

\* C5: whenever decodeDerSignature returns, on either path and for any
\* input, r and s are exactly 32 bytes long.
C5_ResultIs32Bytes ==
    (DecodeCalled /\ output.kind = "returned") =>
        Len(output.value.r) = 32 /\ Len(output.value.s) = 32

\* a DER input whose first INTEGER has 33 significant bytes
C5_Witness ==
    /\ DecodeCalled
    /\ output.kind = "returned"
    /\ \E sc \in IntegerContents :
          input.signature = DerSequence(Ramp(33, 0), sc)

\* C6: an input whose length is not 64 and whose first byte is not 0x30,
\* the empty input included, fails with the invalid-header error.
C6_InvalidHeader ==
    (/\ DecodeCalled
     /\ Len(input.signature) # 64
     /\ (Len(input.signature) = 0 \/ input.signature[1] # 48))
    => /\ output.kind = "threw"
       /\ output.message = <<"Invalid", "DER", "sequence", "header">>

\* an input one byte longer than a raw signature, without the tag
C6_Witness ==
    /\ DecodeCalled
    /\ Len(input.signature) = 65
    /\ input.signature[1] # 48
    /\ output.kind = "threw"

\* where the claim expects the two INTEGERs of a DER input
C7_FirstAt ==
    IF Len(input.signature) >= 2 /\ input.signature[2] >= 128
        THEN 2 + (input.signature[2] - 128)
    ELSE 2
C7_FirstLength == At(input.signature, C7_FirstAt + 1)
C7_SecondAt == C7_FirstAt + 2 + C7_FirstLength
C7_BothTagsPresent ==
    /\ At(input.signature, C7_FirstAt) = 2
    /\ C7_FirstLength # Undefined
    /\ At(input.signature, C7_SecondAt) = 2

\* C7: on the DER path the second INTEGER is read at the byte right after
\* the first one's declared content; decoding fails with the invalid-integer
\* error exactly when the byte at either place is not 0x02 or is missing.
C7_IntegersInSequence ==
    (DecodeCalled /\ At(input.signature, 0) = 48) =>
        IF C7_BothTagsPresent
            THEN output.kind = "returned"
        ELSE /\ output.kind = "threw"
             /\ output.message = <<"Invalid", "DER", "integer", "header">>

\* the first INTEGER is well-formed and the byte after its content is there
\* but is not 0x02
C7_Witness ==
    /\ DecodeCalled
    /\ At(input.signature, 0) = 48
    /\ At(input.signature, C7_FirstAt) = 2
    /\ C7_FirstLength # Undefined
    /\ C7_FirstLength > 0
    /\ At(input.signature, C7_SecondAt) \notin {2, Undefined}
    /\ output.kind = "threw"

\* the two INTEGERs of the minimal encoding of a pair of 32-byte values
C21_Integers(kr, lr, ks, ls) ==
    <<2, Len(DerInteger(kr, lr))>> \o DerInteger(kr, lr)
        \o <<2, Len(DerInteger(ks, ls))>> \o DerInteger(ks, ls)

\* the outcome when the input is the given header followed by the INTEGERs
\* of some pair of values: that pair is returned, or the decoder throws
C21_Outcome(headerOf(_), decoded) ==
    (DecodeCalled /\ Len(input.signature) >= 8) =>
        \A kr \in LeadingZeros, ks \in LeadingZeros :
            \A lr \in LeadBytes, ls \in LeadBytes :
                LET body == C21_Integers(kr, lr, ks, ls)
                IN  input.signature = headerOf(Len(body)) \o body
                    => IF decoded
                          THEN output = Returned([r |-> FieldValue(kr, lr),
                                                  s |-> FieldValue(ks, ls)])
                       ELSE output.kind = "threw"

C21_ShortForm(n) == <<48, n>>
C21_OneLengthByte(n) == <<48, 129, n>>
C21_TwoLengthBytes(n) == <<48, 130, 0, n>>

\* C21 as stated: with the short-form length byte the first INTEGER is read
\* at offset 2, with 0x81 and one length byte at offset 3; a header with
\* 0x82 and two length bytes is not decoded into a signature.
C21_TwoLengthFormsOnly ==
    /\ C21_Outcome(C21_ShortForm, TRUE)
    /\ C21_Outcome(C21_OneLengthByte, TRUE)
    /\ C21_Outcome(C21_TwoLengthBytes, FALSE)

\* C21 as amended: with the short-form length byte the first INTEGER is
\* read at offset 2, with 0x81 and one length byte at offset 3; a header
\* with 0x82 and two length bytes is decoded as well, the first INTEGER
\* being read at offset 4.
C21_LengthBytesAreSkipped ==
    /\ C21_Outcome(C21_ShortForm, TRUE)
    /\ C21_Outcome(C21_OneLengthByte, TRUE)
    /\ C21_Outcome(C21_TwoLengthBytes, TRUE)

\* a signature under a header with two length bytes is decoded
C21_Witness ==
    /\ DecodeCalled
    /\ SubSeq(input.signature, 1, 3) = <<48, 130, 0>>
    /\ At(input.signature, 4) = 2
    /\ output.kind = "returned"
    /\ Len(output.value.r) = 32

(***************************************************************************)
(* Properties of leftPad after trimLeadingZeros, under SpecNormalize.      *)
(***************************************************************************)
NormalizeCalled ==
    input.fn = "leftPad(trimLeadingZeros)" /\ output # NotCalled

\* the big-endian value of the input fits in 32 bytes: every byte before
\* the last 32 is zero
C22_Fits == \A i \in 1..(Len(input.bytes) - 32) : input.bytes[i] = 0

\* the byte of the input that has the weight of byte i of a 32-byte number
C22_ByteOfWeight(i) ==
    LET at == Len(input.bytes) - 32 + i
    IN  IF at >= 1 THEN input.bytes[at] ELSE 0

\* C22: for a byte sequence of any length whose value fits in 32 bytes,
\* leftPad(trimLeadingZeros(b)) is 32 bytes long and has the value of b,
\* and the pair applied to that result returns the same 32 bytes.
C22_NormalizeIsCanonical ==
    (NormalizeCalled /\ C22_Fits) =>
        /\ Len(output.value[1]) = 32
        /\ \A i \in 1..32 : output.value[1][i] = C22_ByteOfWeight(i)
        /\ Len(output.value) = 2 => output.value[2] = output.value[1]

\* 32 significant bytes behind two zeros, normalized twice
C22_Witness ==
    /\ NormalizeCalled
    /\ Len(output.value) = 2
    /\ input.bytes = <<0, 0>> \o Ramp(32, 0)
    /\ output.value[2] = Ramp(32, 0)

(***************************************************************************)
(* Properties of formatBytes, under SpecFormat.                            *)
(***************************************************************************)
FormatCalled == input.fn = "formatBytes" /\ output # NotCalled

C23_Budget == IF input.maxLen = Undefined THEN 64 ELSE input.maxLen

\* the hex digits of a hex-string value: the string without a leading 0x
C23_StringDigits ==
    IF Len(input.value.chars) >= 2
          /\ SubSeq(input.value.chars, 1, 2) = <<"0", "x">>
        THEN SubSeq(input.value.chars, 3, Len(input.value.chars))
    ELSE input.value.chars

\* the number of characters of the full hex representation
C23_FullLength ==
    IF input.value.type = "string" THEN Len(C23_StringDigits)
    ELSE 2 * Len(input.value.bytes)

\* character c is hex digit i of the value
C23_IsDigit(c, i) ==
    IF input.value.type = "string" THEN c = C23_StringDigits[i]
    ELSE LET byte == input.value.bytes[(i + 1) \div 2]
         IN  HexDigitValue(c) = IF i % 2 = 1 THEN byte \div 16 ELSE byte % 16

\* C23: formatBytes returns 0x and the full hex of the value when that hex
\* has at most maxLen characters (64 when none is given), and otherwise 0x,
\* the first maxLen hex characters and '...'; a leading 0x of a hex-string
\* value does not count.
C23_FormatWithinBudget ==
    FormatCalled =>
        LET shown  == IF C23_FullLength <= C23_Budget THEN C23_FullLength
                      ELSE C23_Budget
            text   == output.value
        IN  /\ SubSeq(text, 1, 2) = <<"0", "x">>
            /\ Len(text) >= 2 + shown
            /\ \A i \in 1..shown : C23_IsDigit(text[2 + i], i)
            /\ SubSeq(text, 3 + shown, Len(text)) =
                   IF C23_FullLength > C23_Budget THEN <<".", ".", ".">>
                   ELSE <<>>

\* 33 bytes given as a hex string with 0x, cut at the default budget, next
\* to which 32 bytes would fit
C23_Witness ==
    /\ FormatCalled
    /\ input.maxLen = Undefined
    /\ input.value.type = "string"
    /\ Len(input.value.chars) = 68
    /\ Len(output.value) = 69
    /\ SubSeq(output.value, 67, 69) = <<".", ".", ".">>

(***************************************************************************)
(* Properties of verifyOnChain and callP256Precompile, under Spec.         *)
(***************************************************************************)
Settled == pc = "settled"
Answered == Settled /\ response # Unset

\* the hex strings that mean true: 0x or 0X, then 1, 01 or 63 zeros and 1
C8_TrueForms ==
    {<<"0", x>> \o digits :
        x \in {"x", "X"},
        digits \in {<<"1">>, <<"0", "1">>, Fill(63, "0") \o <<"1">>}}

C8_MeansTrue(resp) ==
    CASE resp.type = "string" -> resp.value \in C8_TrueForms
      [] "data" \in DOMAIN resp -> resp.data \in C8_TrueForms
      [] OTHER -> FALSE

\* C8: the response means true exactly when it is, in either case of the x,
\* the 32-byte encoding of 1, 0x01 or 0x1; an absent, empty or zero response
\* and every other value mean false; no response makes the attempt throw;
\* callP256Precompile gives the verdict verifyOnChain gives.
C8_BooleanInterpretation ==
    Answered =>
        /\ result.valid = C8_MeansTrue(response)
        /\ failure = Unset
        /\ (output # NotCalled => output = Returned(result.valid))

\* the short true form with an upper-case marker, seen by both functions
C8_Witness ==
    /\ Answered
    /\ response = [type |-> "object", data |-> <<"0", "X", "0", "1">>]
    /\ result.valid
    /\ output = Returned(TRUE)

\* C9: an outcome that carries gas figures has gasUsed = totalCallGas - 23560
\* when totalCallGas > 23560 and gasUsed = 3450 otherwise, so gasUsed is
\* never zero or negative.
C9_GasUsed ==
    (Settled /\ "gasUsed" \in DOMAIN result) =>
        /\ "totalCallGas" \in DOMAIN result
        /\ (result.totalCallGas > 23560
              => result.gasUsed = result.totalCallGas - 23560)
        /\ (result.totalCallGas <= 23560 => result.gasUsed = 3450)
        /\ result.gasUsed > 0

\* the estimate equals the overhead exactly
C9_Witness ==
    /\ Settled
    /\ "gasUsed" \in DOMAIN result
    /\ result.totalCallGas = 23560
    /\ result.gasUsed = 3450

\* what a thrown value says of itself
C10_Description(thrown) ==
    IF thrown.isError /\ thrown.message # <<>> THEN thrown.message
    ELSE thrown.string

\* C10: a failure of buildCalldata or of any of the three requests never
\* leaves verifyOnChain as an exception: the attempt settles with valid =
\* false, the failure's description as error, and the latency from the start
\* of the attempt to the failure, rounded to a millisecond.
C10_FailureBecomesInvalid ==
    /\ pc \in {"idle", "block", "gas", "call", "settled"}
    /\ (Settled => "valid" \in DOMAIN result)
    /\ (failure # Unset =>
          /\ Settled
          /\ result.valid = FALSE
          /\ "error" \in DOMAIN result
          /\ result.error = C10_Description(failure)
          /\ "rpcLatency" \in DOMAIN result
          /\ failTime - start <= 2 * result.rpcLatency
          /\ 2 * result.rpcLatency <= failTime - start + 1)

\* the gas estimate fails one and a half milliseconds into the attempt
C10_Witness ==
    /\ Settled
    /\ failure \in Failures
    /\ Len(requests) = 2
    /\ failTime - start = 3
    /\ result.rpcLatency = 2
    /\ ~result.valid

\* a request failed after the block number was fetched
C11_FailedAfterTelemetry == failure # Unset /\ blockNumber # Undefined

\* C11: an attempt that fails after the block number (and perhaps
\* the gas estimate) was fetched settles with an outcome that carries the
\* block number, the gas estimate if fetched, and the latency.
C11_PartialTelemetryKept ==
    C11_FailedAfterTelemetry =>
        /\ "rpcLatency" \in DOMAIN result
        /\ "blockNumber" \in DOMAIN result
        /\ result.blockNumber = blockNumber
        /\ (fullGas # Undefined =>
              /\ "totalCallGas" \in DOMAIN result
              /\ result.totalCallGas = fullGas)

\* the response's data, or <<"absent">> when there is none
C12_Data ==
    IF response.type = "string" THEN response.value
    ELSE IF "data" \in DOMAIN response THEN response.data
    ELSE <<"absent">>

C12_Diagnostic == <<"Empty", "response", "(precompile", "not", "active)">>

C12_CarriesTelemetry ==
    /\ {"gasUsed", "totalCallGas", "blockNumber", "rpcLatency"}
          \subseteq DOMAIN result
    /\ result.totalCallGas = fullGas
    /\ result.blockNumber = blockNumber

\* the outcome of a response taken as empty, and of one that is not
C12_Outcome(emptyForms) ==
    Answered =>
        /\ C12_CarriesTelemetry
        /\ IF C12_Data \in emptyForms
              THEN /\ ~result.valid
                   /\ "error" \in DOMAIN result
                   /\ result.error = C12_Diagnostic
           ELSE /\ "error" \notin DOMAIN result
                /\ (~C8_MeansTrue(response) => ~result.valid)

\* C12 as stated: after three successful requests an absent, empty or zero
\* response (no data, 0x, 0x0, 0x00) gives valid = false with the
\* 'precompile not active' diagnostic and the gas, block and latency
\* figures; any other response that is not true gives valid = false without
\* the diagnostic.
C12_ZeroByteIsDiagnosed ==
    C12_Outcome({<<"absent">>, <<>>, <<"0", "x">>, <<"0", "x", "0">>,
                 <<"0", "x", "0", "0">>})

\* C12 as amended: the diagnostic is given for no data, the empty string, 0x
\* and 0x0 only; the single zero byte 0x00, like any other response that is
\* not true, gives valid = false without the diagnostic.  Every such outcome
\* carries the gas, block and latency figures.
C12_EmptyIsDiagnosed ==
    C12_Outcome({<<"absent">>, <<>>, <<"0", "x">>, <<"0", "x", "0">>})

\* the node answers 0x: the diagnostic together with the figures
C12_Witness ==
    /\ Answered
    /\ response = [type |-> "object", data |-> <<"0", "x">>]
    /\ result.error = C12_Diagnostic
    /\ result.gasUsed = PRECOMPILE_GAS_FALLBACK
    /\ result.blockNumber = 21000000


\* a segment without its 0x marker, when it encodes 32 bytes
C15_Digits(segment) ==
    IF Len(segment) = 66 THEN SubSeq(segment, 3, 66) ELSE segment

C15_HexDigit ==
    {"0", "1", "2", "3", "4", "5", "6", "7", "8", "9",
     "a", "b", "c", "d", "e", "f", "A", "B", "C", "D", "E", "F"}

C15_IsHex(digits) == \A i \in 1..Len(digits) : digits[i] \in C15_HexDigit

\* every segment of the params is 64 hex digits, with or without 0x
C15_SegmentsAre32Bytes ==
    /\ DOMAIN params = {"messageHash", "r", "s", "pubX", "pubY"}
    /\ \A f \in DOMAIN params :
          \/ Len(params[f]) = 64 /\ C15_IsHex(params[f])
          \/ /\ Len(params[f]) = 66
             /\ SubSeq(params[f], 1, 2) = <<"0", "x">>
             /\ C15_IsHex(SubSeq(params[f], 3, 66))

\* 0x0000000000000000000000000000000000000100
C15_Address ==
    [i \in 1..42 |-> IF i = 2 THEN "x" ELSE IF i = 40 THEN "1" ELSE "0"]

\* the gas-estimate and call requests issued so far
C15_DataRequests ==
    {i \in 1..Len(requests) : requests[i].method \in {"estimateGas", "call"}}

C15_SameTargetAndData ==
    \A i \in C15_DataRequests :
        /\ requests[i].to = C15_Address
        /\ \A j \in C15_DataRequests : requests[j].data = requests[i].data

\* C15 as stated: for any params, every gas-estimate and call request
\* carries 0x followed by 320 hex characters, targets 0x...0100, and the
\* requests of one attempt carry the same data.
C15_PayloadIs160Bytes ==
    /\ C15_SameTargetAndData
    /\ \A i \in C15_DataRequests : Len(requests[i].data) = 322

\* C15 as amended: for any params every gas-estimate and call request
\* targets 0x...0100 and the requests of one attempt carry the same data;
\* that data is 0x followed by the 320 hex characters of hash, r, s, x, y in
\* this order when each segment of the params is 64 hex digits (with or
\* without 0x).
C15_PayloadOf32ByteSegments ==
    /\ C15_SameTargetAndData
    /\ \A i \in C15_DataRequests :
          C15_SegmentsAre32Bytes =>
              /\ Len(requests[i].data) = 322
              /\ requests[i].data =
                     <<"0", "x">> \o C15_Digits(params.messageHash)
                         \o C15_Digits(params.r) \o C15_Digits(params.s)
                         \o C15_Digits(params.pubX)
                         \o C15_Digits(params.pubY)

\* both requests were issued for params given with their 0x markers
C15_Witness ==
    /\ Len(requests) = 3
    /\ params = WellFormedParams
    /\ C15_DataRequests = {2, 3}
    /\ Len(requests[3].data) = 322

RECURSIVE C16_Magnitude(_)
\* the big-endian number a byte string encodes, as its bytes without
\* leading zeros
C16_Magnitude(bytes) ==
    IF bytes # <<>> /\ Head(bytes) = 0 THEN C16_Magnitude(Tail(bytes))
    ELSE bytes

\* C16: for a DER signature SEQUENCE { INTEGER r, INTEGER s }, an INTEGER
\* that needs more than 32 bytes after its leading zeros are removed is
\* rejected, and an r or s that is returned encodes the same number as the
\* INTEGER of the input.
C16_OverlongIsRejected ==
    \A rc \in IntegerContents, sc \in IntegerContents :
        (DecodeCalled /\ input.signature = DerSequence(rc, sc)) =>
            IF \/ Len(C16_Magnitude(rc)) > TARGET_LENGTH
               \/ Len(C16_Magnitude(sc)) > TARGET_LENGTH
                THEN output.kind = "threw"
            ELSE output.kind = "returned" =>
                    /\ C16_Magnitude(output.value.r) = C16_Magnitude(rc)
                    /\ C16_Magnitude(output.value.s) = C16_Magnitude(sc)

\* the content bytes of the INTEGER at 0-based offset at that are actually
\* in the input: all that it declares, or fewer when the input ends first
C24_Present(at) ==
    LET declared == At(input.signature, at + 1)
        last     == IF declared = Undefined THEN 0 ELSE at + 2 + declared
    IN  IF last > Len(input.signature)
            THEN SubSeq(input.signature, at + 3, Len(input.signature))
        ELSE SubSeq(input.signature, at + 3, last)

\* the 32 bytes of a value given by content bytes: r or s has 32 bytes and,
\* when the content fits in 32 bytes without its leading zeros, is that
\* content behind zeros
C24_Is32BytesOf(field, content) ==
    LET significant == C16_Magnitude(content)
    IN  /\ Len(field) = 32
        /\ Len(significant) <= 32 =>
              field = [i \in 1..(32 - Len(significant)) |-> 0] \o significant

C24_SecondOverruns ==
    /\ At(input.signature, C7_SecondAt + 1) # Undefined
    /\ C7_SecondAt + 2 + At(input.signature, C7_SecondAt + 1)
          > Len(input.signature)

\* C24: on the DER path, when both INTEGER tags are where they are looked
\* for, the decoder returns; r and s are the normalized content bytes that
\* are present in the input, whatever length the SEQUENCE declares,
\* whatever follows the second INTEGER, and also when the second INTEGER
\* declares more bytes than the input has.
C24_LengthsAreNotChecked ==
    (DecodeCalled /\ At(input.signature, 0) = 48 /\ C7_BothTagsPresent) =>
        /\ output.kind = "returned"
        /\ C24_Is32BytesOf(output.value.r, C24_Present(C7_FirstAt))
        /\ C24_Is32BytesOf(output.value.s, C24_Present(C7_SecondAt))

\* the second INTEGER declares more bytes than are left, some are there,
\* and the SEQUENCE declares a length the input does not have
C24_Witness ==
    /\ DecodeCalled
    /\ At(input.signature, 0) = 48
    /\ C7_BothTagsPresent
    /\ C24_SecondOverruns
    /\ Len(C24_Present(C7_SecondAt)) > 1
    /\ At(input.signature, 1) # Len(input.signature) - 2
    /\ output.kind = "returned"
    /\ output.value.s # [i \in 1..32 |-> 0]

\* C17: a settled attempt's outcome has one of two shapes: valid = true
\* with gasUsed, totalCallGas, blockNumber and latency and no error, or
\* valid = false with a non-empty error and a latency.
C17_InvalidHasReason ==
    Settled =>
        IF result.valid
            THEN /\ {"gasUsed", "totalCallGas", "blockNumber", "rpcLatency"}
                       \subseteq DOMAIN result
                 /\ "error" \notin DOMAIN result
        ELSE /\ "rpcLatency" \in DOMAIN result
             /\ "error" \in DOMAIN result
             /\ result.error # <<>>

C20_Order == <<"getBlockNumber", "estimateGas", "call">>

\* the requests issued so far are the first ones of the fixed order, each
\* once
C20_InOrder ==
    /\ Len(requests) <= 3
    /\ \A i \in 1..Len(requests) : requests[i].method = C20_Order[i]

\* a request is there only if the one before it succeeded
C20_AfterSuccess ==
    /\ Len(requests) >= 2 => blockNumber # Undefined
    /\ Len(requests) = 3 => fullGas # Undefined

\* C20: the requests of an attempt are issued one at a time in the order
\* block number, gas estimate, call, each at most once and only after the
\* previous one succeeded; after a failure no request is issued and the
\* attempt is settled as invalid.
C20_SequentialNoRetry ==
    /\ [](C20_InOrder /\ C20_AfterSuccess)
    /\ [](failure # Unset => Settled /\ ~result.valid)
    /\ [][Len(requests') <= Len(requests) + 1]_vars
    /\ [][failure # Unset => requests' = requests]_vars

\* the gas estimate failed: two requests were issued and no third
C20_Witness ==
    /\ Settled
    /\ failure \in Failures
    /\ blockNumber \in BlockNumbers
    /\ fullGas = Undefined
    /\ Len(requests) = 2
    /\ ~result.valid
    /\ output = NotCalled

(***************************************************************************)
(* Properties of buildCalldata, under SpecHexEncode.                       *)
(***************************************************************************)
HexEncodeCalled == input.fn = "buildCalldata" /\ output # NotCalled

\* a segment without its 0x marker
C19_Digits(segment) ==
    IF Len(segment) >= 2 /\ SubSeq(segment, 1, 2) = <<"0", "x">>
        THEN SubSeq(segment, 3, Len(segment))
    ELSE segment

\* the value of a hex digit of either case
C19_DigitValue(c) ==
    CASE c = "A" -> 10 [] c = "B" -> 11 [] c = "C" -> 12
      [] c = "D" -> 13 [] c = "E" -> 14 [] c = "F" -> 15
      [] OTHER -> HexDigitValue(c)

\* the bytes a segment encodes
C19_Bytes(segment) ==
    LET digits == C19_Digits(segment)
    IN  [i \in 1..(Len(digits) \div 2) |->
            16 * C19_DigitValue(digits[2 * i - 1])
                + C19_DigitValue(digits[2 * i])]

C19_Encodes32Bytes(segment) ==
    /\ Len(C19_Digits(segment)) = 64
    /\ \A i \in 1..64 : C19_DigitValue(C19_Digits(segment)[i]) < 16

C19_AllEncode32Bytes ==
    \A f \in SegmentNames : C19_Encodes32Bytes(input[f])

C19_AllLowerCase ==
    \A f \in SegmentNames :
        \A i \in 1..Len(input[f]) : HexDigitValue(input[f][i]) < 16
                                        \/ input[f][i] = "x"

\* buildPrecompileCalldata applied to the bytes the five segments encode
C19_FromBytes ==
    BuildPrecompileCalldata(C19_Bytes(input.messageHash), C19_Bytes(input.r),
                            C19_Bytes(input.s), C19_Bytes(input.pubX),
                            C19_Bytes(input.pubY))

\* buildCalldata does not fail and returns 0x followed by the segments
\* without their markers, of that many characters
C19_PlainConcatenation ==
    /\ output.kind = "returned"
    /\ output.value =
           <<"0", "x">> \o C19_Digits(input.messageHash)
               \o C19_Digits(input.r) \o C19_Digits(input.s)
               \o C19_Digits(input.pubX) \o C19_Digits(input.pubY)
    /\ Len(output.value) =
           2 + Len(C19_Digits(input.messageHash)) + Len(C19_Digits(input.r))
             + Len(C19_Digits(input.s)) + Len(C19_Digits(input.pubX))
             + Len(C19_Digits(input.pubY))

\* C19 as stated: on five segments that each encode 32 bytes buildCalldata
\* returns the very calldata buildPrecompileCalldata returns for the bytes
\* they encode; on segments of any length it does not fail and returns the
\* plain concatenation.
C19_SameCalldata ==
    HexEncodeCalled =>
        /\ C19_PlainConcatenation
        /\ C19_AllEncode32Bytes => output = C19_FromBytes

\* C19 as amended: on five segments that each encode 32 bytes buildCalldata
\* returns calldata that encodes the same 160 bytes as the calldata
\* buildPrecompileCalldata returns for those bytes, and the very same string
\* when the segments are written in lower-case digits; upper-case digits
\* are kept as written.  On segments of any length it does not fail and
\* returns the plain concatenation.
C19_SameBytes ==
    HexEncodeCalled =>
        /\ C19_PlainConcatenation
        /\ C19_AllEncode32Bytes =>
              /\ C19_FromBytes.kind = "returned"
              /\ C19_Bytes(output.value) = C19_Bytes(C19_FromBytes.value)
              /\ Len(C19_Bytes(output.value)) = 160
              /\ C19_AllLowerCase => output = C19_FromBytes

\* segments with and without the marker, none in upper case
C19_Witness ==
    /\ HexEncodeCalled
    /\ C19_AllEncode32Bytes
    /\ C19_AllLowerCase
    /\ input.r = C19_Digits(input.r)
    /\ input.s # C19_Digits(input.s)
    /\ output = C19_FromBytes

(***************************************************************************)
(* Properties of verifyOnChain against fixed answers, under SpecScripted.  *)
(***************************************************************************)
\* the verdict the gas-estimate and call answers alone would give
C13_VerdictOfGasAndCall ==
    /\ {"messageHash", "r", "s", "pubX", "pubY"}
          \subseteq DOMAIN input.params
    /\ input.gas.ok
    /\ input.call.ok
    /\ C8_MeansTrue(input.call.value)

\* C13 as stated: the block-number request is best effort; for the same
\* parameters, gas-estimate answer and call answer the outcome's valid flag
\* is the same whether the block-number request succeeds or fails.
C13_BlockFailureKeepsVerdict ==
    Settled => result.valid = C13_VerdictOfGasAndCall

\* C13 as amended: the block number itself never changes the verdict (for
\* the same parameters, gas-estimate answer and call answer the valid flag
\* is the same for every block number returned), but a failed block-number
\* request ends the attempt with valid = false.
C13_BlockNumberKeepsVerdict ==
    Settled => result.valid = (input.block.ok /\ C13_VerdictOfGasAndCall)

\* a true answer after block number 0, and one lost to a failed
\* block-number request
C13_Witness ==
    /\ Settled
    /\ C13_VerdictOfGasAndCall
    /\ \/ input.block = Resolved(0) /\ result.valid
       \/ ~input.block.ok /\ ~result.valid


(***************************************************************************)
(* Properties of verifyOnChain when every request is answered, under       *)
(* SpecAnswered.                                                           *)
(***************************************************************************)
C14_InFlight == pc \in {"block", "gas", "call"}

\* Idle, InFlight and Settled, numbered in their order
C14_Phase ==
    CASE pc = "idle" -> 0
      [] C14_InFlight -> 1
      [] pc = "settled" -> 2

\* C14: an attempt goes from Idle through InFlight to Settled and never
\* back; an attempt in flight eventually settles; there is an outcome
\* exactly when the attempt is settled; once settled no further request is
\* issued and the outcome does not change.
C14_SettlesOnce ==
    /\ [][C14_Phase' >= C14_Phase]_vars
    /\ [](result # Unset <=> Settled)
    /\ [][Settled => /\ Settled'
                     /\ result' = result
                     /\ requests' = requests]_vars
    /\ C14_InFlight ~> Settled

\* a settled attempt whose three requests were all issued, seen after
\* callP256Precompile has run on the same response
C14_Witness ==
    /\ Settled
    /\ Len(requests) = 3
    /\ result # Unset
    /\ output # NotCalled


(***************************************************************************)
(* Properties of usePasskey, under SpecHook.                               *)
(***************************************************************************)
\* the errors of validation: of the message, of the DER headers, of the
\* segment lengths
C18_ValidationErrors ==
    {MESSAGE_ERROR, HEADER_ERROR, INTEGER_ERROR, SEGMENT_ERROR}

\* call i went past setStatus('working')
C18_ShowedWorking(i) == calls[i].pc # "start"

\* C18: no signMessage call sets the status to 'working' and then ends in
\* the error state with a validation error; every validation error is
\* raised before 'working' is shown.
C18_ValidationBeforeWorking ==
    \A i \in 1..Len(calls) :
        (/\ calls[i].outcome.kind = "threw"
         /\ calls[i].outcome.message \in C18_ValidationErrors)
        => ~C18_ShowedWorking(i)


\* C25: under every interleaving of signMessage and reset calls, status
\* 'ready' goes with a payload and no error, and status 'idle' goes with no
\* payload and no error.
C25_StatusMatchesState ==
    /\ status = "ready" => (payload # Null /\ hookError = Null)
    /\ status = "idle" => (payload = Null /\ hookError = Null)


(***************************************************************************)
(* Properties of the App component, under SpecApp.                         *)
(***************************************************************************)
C26_OneInFlight == Len(handlers) <= 1

C26_LoadingWhileInFlight == (loading = <<>>) <=> (handlers = <<>>)

\* a handleVerify in flight verifies the signature in state
C26_VerifiesCurrent ==
    \A h \in 1..Len(handlers) :
        handlers[h].kind = "verify" =>
            /\ handlers[h].signature = appSignature
            /\ pc # "idle"
            /\ params = ParamsOf(appSignature)

\* a handleSign in flight has its signMessage call
C26_SignsOnce ==
    \A h \in 1..Len(handlers) :
        handlers[h].kind = "sign" => handlers[h].call = Len(calls)

\* C26: with the buttons enabled only while loading is empty, at most one of
\* handleSign and handleVerify is in flight, loading is empty exactly when
\* none is (so it is empty again after either ends, by success or by error),
\* and a non-null verifyResult is the result of verifying the signature
\* that is in state: a successful sign has replaced the signature and
\* cleared verifyResult.
C26_OneHandlerAndCurrentResult ==
    /\ C26_OneInFlight
    /\ C26_LoadingWhileInFlight
    /\ C26_VerifiesCurrent
    /\ C26_SignsOnce
    /\ verifyResult # Null =>
          /\ appSignature # Null
          /\ verified = appSignature

\* a second signature has been made and verified: the result on the page is
\* of the second, which is not the first
C26_Witness ==
    /\ Len(calls) = 2
    /\ calls[1].outcome.kind = "returned"
    /\ calls[2].outcome.kind = "returned"
    /\ calls[1].outcome.value # calls[2].outcome.value
    /\ appSignature = calls[2].outcome.value
    /\ verifyResult # Null
    /\ loading = <<>>

====
